---- MODULE Spec2Model ----
(***************************************************************************)
(* Model of pyworkflow/apps/pw_schedule_run.py: RunScheduler.main, the     *)
(* polling loop that waits for the dependencies of one protocol run and    *)
(* then launches it, together with the shared store (project.sqlite and    *)
(* the run.db of every protocol) that other processes write meanwhile.     *)
(***************************************************************************)
EXTENDS Integers, Sequences, FiniteSets, TLC

\* ---------------------------------------------------------------- bounds
MaxProcs   == 4
MaxPrereqs == 2
MaxInputs  == 1
MaxPolls   == 2
MaxOldLines == 2
MaxLogLines == 3

\* ------------------------------------------------------------- constants
STATUS_SCHEDULED == "scheduled"
STATUS_RUNNING   == "running"
STATUS_FINISHED  == "finished"
STATUS_ABORTED   == "aborted"
STATUS_FAILED    == "failed"

Status == {STATUS_SCHEDULED, STATUS_RUNNING, STATUS_FINISHED,
           STATUS_ABORTED, STATUS_FAILED}

stopStatuses == {STATUS_FINISHED, STATUS_ABORTED, STATUS_FAILED}

None == -1

\* the protocol being scheduled, the other protocols of the project, and the
\* identifiers for which project.getProtocol finds nothing
protId   == 1
Jobs     == 1..3
Others   == Jobs \ {protId}
AllIds   == 1..4

\* an input attribute (Pointer): case A points to a protocol, case B to an
\* object of a protocol through an extended path, case C directly to an
\* object; prot is the protocol that owns the pointed object
InputOwners == {2}
Pointers ==
    [kind : {"A"}, prot : InputOwners, isSet : {FALSE}]
      \cup [kind : {"B"}, prot : InputOwners, isSet : BOOLEAN]
      \cup [kind : {"C"}, prot : InputOwners, isSet : {TRUE}]

SeqsUpTo(S, n) == UNION {[1..k -> S] : k \in 0..n}

Range(s) == {s[i] : i \in 1..Len(s)}

\* the sequences of at most n different elements of S
DistinctSeqsUpTo(S, n) ==
    {s \in SeqsUpTo(S, n) :
        \A i, j \in 1..Len(s) : i # j => s[i] # s[j]}

VARIABLES
    \* configuration of the run (fixed after construction)
    prerequisites,        \* protocol.getPrerequisites()
    waitProtIds,          \* --wait_for
    inputs,               \* protocol.iterInputAttributes()
    worksInStreaming,     \* protocol.worksInStreaming()
    dbExists,             \* os.path.exists(protocol.getDbPath())
    \* shared store, written by the other processes
    runStatus,            \* status committed in each protocol's run.db
    projStatus,           \* status committed in project.sqlite
    streamOpen,           \* isStreamOpen() of the output Set of each protocol
    mtime,                \* modification date of each run.db
    storePid,             \* pid of the scheduled protocol, as committed
    \* scheduler process
    pc,
    mem,                  \* status of each protocol object in memory
    updatedProtocols,
    lastCheckedDict,
    failedInputProtocols,
    missing,
    wait,
    exitCode,
    \* observations of the current run, for the properties
    polls,                \* poll iterations started (saturates at MaxPolls)
    validation,           \* result of validate() in this iteration
    openSeen,             \* an input Set had its stream open in this iteration
    startStopped,         \* every prerequisite was committed as stopped when
                          \* this iteration started
    waitedForPrereq,      \* an earlier iteration waited for a prerequisite
    raised,
    handleOpen,           \* the scheduler holds an open handle of the store
    committed,            \* the last handle it opened has been committed
    pidWrites,            \* commits of the scheduler's pid into the store
    storePrereqs,         \* prerequisites of the protocol, as committed
    loadedPrereqs,        \* prerequisites of the protocol as loaded by this
                          \* iteration
    refreshCount,         \* project._updateProtocol calls of this iteration,
                          \* for each protocol
    oldLog,               \* lines of the schedule log when the scheduler starts
    logKept,              \* how many of them are still in the file
    logLines,             \* lines written by _log (saturates at MaxLogLines)
    refreshedAt,          \* modification date each protocol had when it was
                          \* last refreshed
    unmodifiedRefresh,    \* this iteration refreshed a protocol whose run.db
                          \* was not modified since its last refresh
    resolveError,         \* _getProtocolFromPointer raised in this iteration
    loadedStatus,         \* status of the protocol object loaded at start-up
    containerStatus,      \* status last committed by the owning project
    \* process launcher (pyworkflow/utils/process.py, runJob)
    lpc,
    programname,
    params,
    numberOfMpi,
    runInBackground,
    hostConfig,
    debug,                \* SCIPION_DEBUG of the environment
    command,              \* the command built by buildRunCommand
    callOutcome,          \* what subprocess.call did
    result,               \* how runJob ended
    spawned,              \* external processes started by runJob
    coreUnlimited,        \* RLIMIT_CORE was raised to RLIM_INFINITY
    \* killWithChilds (pyworkflow/utils/process.py) and the process table
    kpc,
    alive,                \* the running processes
    started,              \* the processes that have ever run
    parent,               \* the process that forks each process
    children,             \* proc.get_children(recursive=True)
    killed                \* the processes killed by killWithChilds, in order

vars == <<prerequisites, waitProtIds, inputs, worksInStreaming, dbExists,
          runStatus, projStatus, streamOpen, mtime, storePid,
          pc, mem, updatedProtocols, lastCheckedDict, failedInputProtocols,
          missing, wait, exitCode,
          polls, validation, openSeen, startStopped, waitedForPrereq, raised,
          handleOpen, committed, pidWrites, storePrereqs, loadedPrereqs,
          refreshCount, oldLog, logKept, logLines, refreshedAt,
          unmodifiedRefresh, resolveError, loadedStatus, containerStatus,
          lpc, programname, params, numberOfMpi, runInBackground, hostConfig,
          debug, command, callOutcome, result, spawned, coreUnlimited,
          kpc, alive, started, parent, children, killed>>

config == <<prerequisites, waitProtIds, inputs, worksInStreaming, dbExists,
            oldLog>>
store  == <<runStatus, projStatus, streamOpen, mtime>>
flags  == <<failedInputProtocols, missing, wait>>
obs    == <<polls, validation, openSeen, startStopped, waitedForPrereq>>
handle == <<handleOpen, committed>>
iter   == <<loadedPrereqs, refreshCount>>
logf   == <<logKept, logLines>>
seen   == <<refreshedAt, unmodifiedRefresh, resolveError>>
startup == <<loadedStatus, containerStatus>>
scheduler == <<prerequisites, waitProtIds, inputs, worksInStreaming, dbExists,
               runStatus, projStatus, streamOpen, mtime, storePid,
               pc, mem, updatedProtocols, lastCheckedDict,
               failedInputProtocols, missing, wait, exitCode,
               polls, validation, openSeen, startStopped, waitedForPrereq,
               raised, handleOpen, committed, pidWrites, storePrereqs,
               loadedPrereqs, refreshCount, oldLog, logKept, logLines,
               refreshedAt, unmodifiedRefresh, resolveError, loadedStatus,
               containerStatus>>
launcher == <<lpc, programname, params, numberOfMpi, runInBackground,
              hostConfig, debug, command, callOutcome, result, spawned,
              coreUnlimited>>
killer == <<kpc, alive, started, parent, children, killed>>

\* the committed status of a protocol: its run.db when it has one, the
\* project database otherwise
Auth(j) == IF dbExists[j] THEN runStatus[j] ELSE projStatus[j]

\* every prerequisite that is a protocol of the project is committed with a
\* status of stopStatuses
PrerequisitesStopped ==
    \A i \in 1..Len(prerequisites) :
        prerequisites[i] \in Jobs => Auth(prerequisites[i]) \in stopStatuses

\* the protocols this run depends on: its prerequisites and the owners of its
\* inputs
Referenced ==
    Range(prerequisites) \cup {inputs[i].prot : i \in 1..Len(inputs)}

\* the protocols whose output Set is an input of this run
InputSetOwners == {inputs[i].prot : i \in {k \in 1..Len(inputs) : inputs[k].isSet}}

\* ------------------------------------------------------------------ strings
\* a string is the sequence of its characters
StartsWith(s, prefix) ==
    Len(s) >= Len(prefix) /\ SubSeq(s, 1, Len(prefix)) = prefix

\* str.replace(old, new): every occurrence of old that does not overlap an
\* earlier one, from left to right
RECURSIVE Replace(_, _, _)
Replace(s, old, new) ==
    IF Len(s) < Len(old)
    THEN s
    ELSE IF SubSeq(s, 1, Len(old)) = old
         THEN new \o Replace(SubSeq(s, Len(old) + 1, Len(s)), old, new)
         ELSE <<Head(s)>> \o Replace(Tail(s), old, new)

Digit(d) == CASE d = 0 -> "0" [] d = 1 -> "1" [] d = 2 -> "2" [] d = 3 -> "3"
              [] d = 4 -> "4" [] d = 5 -> "5" [] d = 6 -> "6" [] d = 7 -> "7"
              [] d = 8 -> "8" [] d = 9 -> "9"

\* "%s" of a natural number: its decimal representation
RECURSIVE DecimalString(_)
DecimalString(n) ==
    IF n < 10 THEN <<Digit(n)>>
    ELSE DecimalString(n \div 10) \o <<Digit(n % 10)>>

\* the number of places of s where sub occurs
Occurrences(s, sub) ==
    Cardinality({i \in 1..(Len(s) - Len(sub) + 1) :
                    SubSeq(s, i, i + Len(sub) - 1) = sub})

\* the character U+0060 (grave accent)
BACKTICK  == "GRAVE"

XMIPP     == <<"x", "m", "i", "p", "p">>
XMIPP_MPI == <<"x", "m", "i", "p", "p", "_", "m", "p", "i">>
WHICH     == <<BACKTICK, "w", "h", "i", "c", "h", " ">>
BACKGROUND == <<" ", "&">>

\* the two named fields of a command template
JOB_NODES == "%(JOB_NODES)s"
COMMAND   == "%(COMMAND)s"

\* the inputs of the launcher that are enumerated
Programs ==
    { <<"a", "l", "i", "g", "n">>,
      <<"x", "m", "i", "p", "p", "_", "r", "e", "c", "o", "n", "s", "t", "r", "u", "c", "t">>,
      <<"x", "m", "i", "p", "p", "_", "x", "m", "i", "p", "p">>,
      <<"s", "c", "i", "p", "i", "o", "n", "_", "x", "m", "i", "p", "p">> }

Params ==
    { <<"-", "-", "i", "n", " ", "a", ".", "d", "a", "t">>,
      <<"-", "i", " ", "x">>,
      <<"-", "n", " ", "4">> }

MpiCounts == {0, 1, 2, 4, 12}

\* a command template is a sequence of characters and named fields
Templates ==
    { <<"m", "p", "i", "r", "u", "n", " ", "-", "n", "p", " ", JOB_NODES, " ", COMMAND>>,
      <<"s", "r", "u", "n", " ", COMMAND, " ", "-", "n", " ", JOB_NODES>> }

NoHostConfig == [present |-> FALSE, mpiCommand |-> <<>>]

HostConfigs ==
    {NoHostConfig} \cup {[present |-> TRUE, mpiCommand |-> t] : t \in Templates}

DebugValues == {"unset", "True", "1", "0"}

\* what subprocess.call can do: return the exit code of the shell (negative
\* when a signal killed it) or raise OSError
ExitCodes == {0 - 9, 0, 1, 2}
CallOutcomes ==
    [kind : {"exit"}, value : ExitCodes] \cup [kind : {"OSError"}, value : {2, 13}]

\* ------------------------------------------------------- process.py helpers
RECURSIVE FormatTemplateCountOnly(_, _)
FormatTemplateCountOnly(template, paramsDict) ==
    IF template = <<>>
    THEN <<>>
    ELSE LET item == Head(template)
             text == IF item = JOB_NODES THEN paramsDict.JOB_NODES
                     ELSE <<item>>
         IN  text \o FormatTemplateCountOnly(Tail(template), paramsDict)

\* template % paramsDict, lines 82-88
RECURSIVE FormatTemplate(_, _)
FormatTemplate(template, paramsDict) ==
    IF template = <<>>
    THEN <<>>
    ELSE LET item == Head(template)
             text == IF item = JOB_NODES THEN paramsDict.JOB_NODES
                     ELSE IF item = COMMAND THEN paramsDict.COMMAND
                     ELSE <<item>>
         IN  text \o FormatTemplate(Tail(template), paramsDict)

RewriteProgramNone(name) == name

\* lines 80-81: the program name used for an MPI run
RewriteProgram(name) ==
    IF StartsWith(name, XMIPP) THEN Replace(name, XMIPP, XMIPP_MPI) ELSE name

\* line 83: the program between grave accents after "which", then params
InnerCommand(name, args) ==
    WHICH \o name \o <<BACKTICK, " ">> \o args

IsSingleProcessStrict(n) == n < 1

\* line 77
IsSingleProcess(n) == n <= 1

\* lines 90-91
WithBackground(cmd, background) ==
    IF background THEN cmd \o BACKGROUND ELSE cmd

buildRunCommandDefaultHost(name, args, n, background, host) ==
    IF IsSingleProcess(n)
    THEN [exc |-> FALSE,
          command |-> WithBackground(name \o <<" ">> \o args, background)]
    ELSE LET paramsDict ==
                 [JOB_NODES |-> DecimalString(n),
                  COMMAND |-> InnerCommand(RewriteProgram(name), args)]
             template == IF host.present THEN host.mpiCommand
                         ELSE <<JOB_NODES, " ", COMMAND>>
         IN  [exc |-> FALSE,
              command |-> WithBackground(
                  FormatTemplate(template, paramsDict), background)]

\* buildRunCommand, lines 74-93: the command, or the exception of line 86
buildRunCommand(name, args, n, background, host) ==
    IF IsSingleProcess(n)
    THEN [exc |-> FALSE,
          command |-> WithBackground(name \o <<" ">> \o args, background)]
    ELSE LET paramsDict ==
                 [JOB_NODES |-> DecimalString(n),
                  COMMAND |-> InnerCommand(RewriteProgram(name), args)]
         IN  IF ~host.present
             THEN [exc |-> TRUE, command |-> <<>>]
             ELSE [exc |-> FALSE,
                   command |-> WithBackground(
                       FormatTemplate(host.mpiCommand, paramsDict), background)]

\* line 59: debug and debug.lower() in ['true', '1']
Lower(v) == IF v = "True" THEN "true" ELSE v
DebugOn(v) == v # "unset" /\ Lower(v) \in {"true", "1"}

\* line 63
InitialRetcode == 1000

RetcodeFailsPositive(retcode) == retcode > 0

\* line 66
RetcodeFails(retcode) == retcode # 0

\* runCommand, lines 56-71: the value returned or the exception raised for an
\* outcome of subprocess.call
runCommand(cmd, outcome) ==
    IF outcome.kind = "OSError"
    THEN [kind |-> "raise", value |-> InitialRetcode,
          message |-> "Execution failed %s, command: %s",
          args |-> <<outcome.value, cmd>>]
    ELSE IF RetcodeFails(outcome.value)
         THEN [kind |-> "raise", value |-> outcome.value,
               message |-> "Process returned with code %d, command: %s",
               args |-> <<outcome.value, cmd>>]
         ELSE [kind |-> "return", value |-> outcome.value,
               message |-> "", args |-> <<>>]

NoResult == [kind |-> "none", value |-> InitialRetcode, message |-> "", args |-> <<>>]
NoOutcome == [kind |-> "none", value |-> 0]

\* ----------------------------------------------------------------- Init
\* no runJob in progress
LauncherIdle ==
    /\ lpc = "idle"
    /\ programname = <<>>
    /\ params = <<>>
    /\ numberOfMpi = 1
    /\ runInBackground = FALSE
    /\ hostConfig = NoHostConfig
    /\ debug = "unset"
    /\ command = <<>>
    /\ callOutcome = NoOutcome
    /\ result = NoResult
    /\ spawned = 0
    /\ coreUnlimited = FALSE

\* no killWithChilds in progress
KillerIdle ==
    /\ kpc = "idle"
    /\ alive = {}
    /\ started = {}
    /\ parent = <<>>
    /\ children = <<>>
    /\ killed = <<>>

\* no scheduler in progress
SchedulerIdle ==
    /\ prerequisites = <<>>
    /\ waitProtIds = <<>>
    /\ inputs = <<>>
    /\ worksInStreaming = FALSE
    /\ dbExists = [j \in Jobs |-> TRUE]
    /\ runStatus = [j \in Jobs |-> STATUS_FINISHED]
    /\ projStatus = runStatus
    /\ streamOpen = [j \in Jobs |-> FALSE]
    /\ mtime = [j \in Jobs |-> 0]
    /\ storePid = FALSE
    /\ pc = "idle"
    /\ mem = [j \in Jobs |-> "unloaded"]
    /\ updatedProtocols = <<>>
    /\ lastCheckedDict = [j \in Jobs |-> None]
    /\ failedInputProtocols = FALSE
    /\ missing = FALSE
    /\ wait = FALSE
    /\ exitCode = None
    /\ polls = 0
    /\ validation = "none"
    /\ openSeen = FALSE
    /\ startStopped = FALSE
    /\ waitedForPrereq = FALSE
    /\ raised = FALSE
    /\ handleOpen = FALSE
    /\ committed = FALSE
    /\ pidWrites = 0
    /\ storePrereqs = <<>>
    /\ loadedPrereqs = <<>>
    /\ refreshCount = [j \in Jobs |-> 0]
    /\ oldLog = 0
    /\ logKept = 0
    /\ logLines = 0
    /\ refreshedAt = [j \in Jobs |-> None]
    /\ unmodifiedRefresh = FALSE
    /\ resolveError = FALSE
    /\ loadedStatus = "unloaded"
    /\ containerStatus = "none"

\* the state after construction, but for the lists of prerequisites
InitRun ==
    /\ inputs \in SeqsUpTo(Pointers, MaxInputs)
    /\ worksInStreaming \in BOOLEAN
    /\ dbExists \in {f \in [Jobs -> BOOLEAN] : f[protId] /\ f[3]}
    /\ runStatus = [j \in Jobs |->
                      IF j = protId THEN STATUS_SCHEDULED ELSE STATUS_RUNNING]
    /\ projStatus = runStatus
    /\ streamOpen = [j \in Jobs |-> TRUE]
    /\ mtime = [j \in Jobs |-> 0]
    /\ storePid = FALSE
    /\ pc = "init"
    /\ mem = [j \in Jobs |-> "unloaded"]
    /\ updatedProtocols = <<>>
    /\ lastCheckedDict = [j \in Jobs |-> None]
    /\ failedInputProtocols = FALSE
    /\ missing = FALSE
    /\ wait = FALSE
    /\ exitCode = None
    /\ polls = 0
    /\ validation = "none"
    /\ openSeen = FALSE
    /\ startStopped = FALSE
    /\ waitedForPrereq = FALSE
    /\ raised = FALSE
    /\ handleOpen = FALSE
    /\ committed = FALSE
    /\ pidWrites = 0
    /\ storePrereqs = prerequisites
    /\ loadedPrereqs = <<>>
    /\ refreshCount = [j \in Jobs |-> 0]
    /\ logKept = oldLog
    /\ logLines = 0
    /\ refreshedAt = [j \in Jobs |-> None]
    /\ unmodifiedRefresh = FALSE
    /\ resolveError = FALSE
    /\ loadedStatus = "unloaded"
    /\ containerStatus = "none"
    /\ LauncherIdle
    /\ KillerIdle

\* a run scheduled without --wait_for
Init ==
    /\ prerequisites \in DistinctSeqsUpTo(AllIds \ {protId}, MaxPrereqs)
    /\ waitProtIds = <<>>
    /\ oldLog = 0
    /\ InitRun

\* a run scheduled with or without --wait_for, with at most one prerequisite
\* of its own
InitWaitFor ==
    /\ prerequisites \in DistinctSeqsUpTo(AllIds \ {protId}, 1)
    /\ waitProtIds \in {<<>>} \cup {<<j>> : j \in Others}
    /\ oldLog = 0
    /\ InitRun

\* ------------------------------------------------------------ collaborators
\* project.getProtocol(protId): the protocol of the project with that id, or
\* nothing
getProtocol(id) == IF id \in Jobs THEN id ELSE None

\* project._updateProtocol(protocol, skipUpdatedProtocols=False): the state of
\* the protocol object is reloaded from the protocol's own run.db
ProjectUpdateProtocol(id) == runStatus[id]

\* getFileLastModificationDate(protDb)
getFileLastModificationDate(id) == mtime[id]

\* mapper.store(protocol) and mapper.commit(): the state of the protocol
\* object, as it is in memory, replaces the committed one (last write wins)
MapperStore(db, status) == [db EXCEPT ![protId] = status]

\* ------------------------------------------------- helpers of RunScheduler.main
ShouldRefreshBoth(lastChecked, lastModified) ==
    lastChecked # None /\ lastModified > lastChecked

\* line 126
ShouldRefresh(lastChecked, lastModified) ==
    lastChecked = None \/ lastModified > lastChecked

updateProtocolNoMemo(st, id) ==
    IF dbExists[id]
       /\ ShouldRefresh(lastCheckedDict[id], getFileLastModificationDate(id))
    THEN [st EXCEPT !.mem = [@ EXCEPT ![id] = ProjectUpdateProtocol(id)],
                    !.upd = Append(@, id),
                    !.cnt = [@ EXCEPT ![id] = @ + 1]]
    ELSE st

\* _updateProtocol(protocol, project) on the scheduler state st (a record with
\* at least the fields mem, upd and cnt)
updateProtocol(st, id) ==
    IF id \in Range(st.upd)
    THEN st
    ELSE IF dbExists[id]
            /\ ShouldRefresh(lastCheckedDict[id], getFileLastModificationDate(id))
         THEN [st EXCEPT !.mem = [@ EXCEPT ![id] = ProjectUpdateProtocol(id)],
                         !.upd = Append(@, id),
                         !.cnt = [@ EXCEPT ![id] = @ + 1]]
         ELSE st

\* _getProtocolFromPointer(pointer): cases A and B give the protocol the
\* pointer refers to; case C calls self.getProject(), which RunScheduler does
\* not define, so the call raises AttributeError
getProtocolFromPointer(pointer) ==
    IF pointer.kind = "A"
    THEN [ok |-> TRUE, prot |-> pointer.prot]
    ELSE IF pointer.kind = "B"
         THEN [ok |-> TRUE, prot |-> pointer.prot]
         ELSE [ok |-> FALSE, prot |-> None]

IsFailedStatus(status) == status = STATUS_ABORTED \/ status = STATUS_FAILED

\* the loop over protocol.iterInputAttributes() of lines 176-181
RECURSIVE ScanInputs(_, _)
ScanInputs(i, st) ==
    IF i > Len(inputs) \/ st.exc
    THEN st
    ELSE LET res == getProtocolFromPointer(inputs[i]) IN
         IF ~res.ok
         THEN [st EXCEPT !.exc = TRUE]
         ELSE LET st1 == updateProtocol(st, res.prot) IN
              ScanInputs(i + 1,
                  [st1 EXCEPT !.failed = @ \/ IsFailedStatus(st1.mem[res.prot])])

\* the loop of lines 192-199: an input Set whose stream is still open
StreamBlocked(ins, open) ==
    \E i \in 1..Len(ins) : ins[i].isSet /\ open[ins[i].prot]

IsMissingNonStreaming(valid, streaming, ins, open) ==
    IF ~valid THEN TRUE ELSE ~streaming

\* lines 185-199: the value of missing after validate() and the stream check
IsMissing(valid, streaming, ins, open) ==
    IF ~valid
    THEN TRUE
    ELSE IF ~streaming THEN StreamBlocked(ins, open) ELSE FALSE

\* protocol.inputProtocolDict().values(), as a sequence
inputProtocolDict == [i \in 1..Len(inputs) |-> inputs[i].prot]

RECURSIVE UpdateAll(_, _, _)
UpdateAll(ids, i, st) ==
    IF i > Len(ids) THEN st ELSE UpdateAll(ids, i + 1, updateProtocol(st, ids[i]))

WaitAfterLast(w, status) == status \notin stopStatuses

\* lines 213-214: wait after one more prerequisite with the given status
WaitAfter(w, status) == w \/ status \notin stopStatuses

\* the loop over the prerequisites of lines 209-215
RECURSIVE ScanPrerequisites(_, _)
ScanPrerequisites(i, st) ==
    IF i > Len(prerequisites)
    THEN st
    ELSE LET prot == getProtocol(prerequisites[i]) IN
         IF prot = None
         THEN ScanPrerequisites(i + 1, st)
         ELSE LET st1 == updateProtocol(st, prot) IN
              ScanPrerequisites(i + 1,
                  [st1 EXCEPT !.wait = WaitAfter(@, st1.mem[prot])])

\* the number of lines of the log written by this run after k more calls of
\* _log (lines 97-99: one write per call)
AddLines(n, k) == IF n + k > MaxLogLines THEN MaxLogLines ELSE n + k

\* the refreshes of an iteration, each logged at line 129
RECURSIVE Total(_, _)
Total(cnt, S) ==
    IF S = {} THEN 0
    ELSE LET j == CHOOSE x \in S : TRUE
         IN  cnt[j] + Total(cnt, S \ {j})

\* the prerequisites logged at line 215, m being the statuses in memory
Waiting(m) ==
    Cardinality({i \in 1..Len(prerequisites) :
                    /\ getProtocol(prerequisites[i]) # None
                    /\ m[prerequisites[i]] \notin stopStatuses})

\* ------------------------------------------------------ scheduler actions
\* lines 83-102: parse the arguments, load the protocol, open the schedule
\* log with mode 'w', set the pid in memory, log the first line
StartLoad ==
    /\ pc = "init"
    /\ \E ok \in BOOLEAN :
          IF ok
          THEN /\ pc' = "loaded"
               /\ handleOpen' = TRUE
               /\ loadedStatus' = Auth(protId)
               /\ logKept' = 0
               /\ logLines' = AddLines(0, 1)
               /\ UNCHANGED raised
          ELSE /\ pc' = "except"
               /\ raised' = TRUE
               /\ UNCHANGED <<handleOpen, logf, loadedStatus>>
    /\ UNCHANGED <<killer, launcher, seen, containerStatus,
                   committed, pidWrites, storePrereqs, iter,
                   config, store, storePid, mem, updatedProtocols,
                   lastCheckedDict, flags, exitCode, obs>>

StartStoreNoCommit ==
    /\ pc = "loaded"
    /\ handleOpen' = FALSE
    /\ pc' = "poll"
    /\ UNCHANGED <<killer, launcher, logf, seen, startup,
                   committed, pidWrites, storePrereqs, iter,
                   config, store, storePid, mem, updatedProtocols,
                   lastCheckedDict, flags, exitCode, obs, raised>>

\* lines 104-106: store, commit, close
StartStore ==
    /\ pc = "loaded"
    /\ storePid' = TRUE
    /\ runStatus' = MapperStore(runStatus, loadedStatus)
    /\ mtime' = [mtime EXCEPT ![protId] = @ + 1]
    /\ pidWrites' = pidWrites + 1
    /\ committed' = TRUE
    /\ handleOpen' = FALSE
    /\ pc' = "poll"
    /\ UNCHANGED <<killer, launcher, logf, seen, startup,
                   storePrereqs, iter,
                   config, projStatus, streamOpen, mem, updatedProtocols, lastCheckedDict,
                   flags, exitCode, obs, raised>>

\* lines 161-215, the checks of one poll iteration: reset the flags, clear the
\* memo list, check the input attributes, validate(), the open streams, the
\* input protocols and the explicit prerequisites; valid is the result of
\* validate(), calls the number of calls of _log
Iteration(valid) ==
    LET st0 == [mem |-> projStatus, upd |-> <<>>,
                cnt |-> [j \in Jobs |-> 0],
                failed |-> FALSE, exc |-> FALSE]
        miss == IsMissing(valid, worksInStreaming, inputs, streamOpen)
    IN  \* lines 176-181
        LET st1 == ScanInputs(1, st0) IN
        IF st1.exc
        THEN [exc |-> TRUE, mem |-> st1.mem, upd |-> st1.upd, cnt |-> st1.cnt,
              failed |-> st1.failed, missing |-> FALSE, wait |-> FALSE,
              validation |-> "skipped",
              calls |-> 1 + Total(st1.cnt, Jobs)]
        ELSE \* lines 183-204
             LET st2 == updateProtocol(st1, protId)
                 st3 == IF miss THEN st2
                        ELSE UpdateAll(inputProtocolDict, 1, st2)
                 st4 == IF st1.failed THEN st1 ELSE st3
                 \* lines 206-215
                 st5 == ScanPrerequisites(1,
                            [mem |-> st4.mem, upd |-> st4.upd,
                             cnt |-> st4.cnt, wait |-> FALSE])
             IN  [exc |-> FALSE, mem |-> st5.mem, upd |-> st5.upd,
                  cnt |-> st5.cnt, failed |-> st1.failed,
                  missing |-> IF st1.failed THEN FALSE ELSE miss,
                  wait |-> st5.wait,
                  validation |-> IF st1.failed THEN "skipped"
                                 ELSE IF valid THEN "ok" ELSE "bad",
                  calls |-> 1 + Total(st5.cnt, Jobs)
                              + (IF st1.failed THEN 0
                                 ELSE IF ~valid THEN 1
                                 ELSE IF miss THEN 1 ELSE 0)
                              + 1 + Waiting(st5.mem)]

\* lines 158-215, one poll iteration up to the decision: reload the protocol
\* and its project, then the checks of Iteration; valid is the result of
\* validate()
Poll(valid) ==
    /\ pc = "poll"
    /\ \E ok \in BOOLEAN :
          IF ok
          THEN \E it \in {Iteration(valid)} :
                   /\ handleOpen' = TRUE
                   /\ logLines' = AddLines(logLines, it.calls)
                   /\ committed' = FALSE
                   /\ loadedPrereqs' = storePrereqs
                   /\ resolveError' = it.exc
                   /\ refreshedAt' = [j \in Jobs |->
                         IF it.cnt[j] >= 1 THEN getFileLastModificationDate(j)
                         ELSE refreshedAt[j]]
                   /\ unmodifiedRefresh' =
                         \E j \in Jobs :
                            /\ it.cnt[j] >= 1
                            /\ refreshedAt[j] # None
                            /\ ~(getFileLastModificationDate(j) > refreshedAt[j])
                   /\ pc' = IF it.exc THEN "except" ELSE "decide"
                   /\ raised' = IF it.exc THEN TRUE ELSE raised
                   /\ mem' = it.mem
                   /\ updatedProtocols' = it.upd
                   /\ refreshCount' = it.cnt
                   /\ failedInputProtocols' = it.failed
                   /\ missing' = it.missing
                   /\ validation' = it.validation
                   /\ wait' = IF it.exc THEN wait ELSE it.wait
          ELSE /\ pc' = "except"
               /\ raised' = TRUE
               /\ UNCHANGED <<mem, updatedProtocols, flags, validation,
                              handle, iter, seen, logLines>>
    /\ polls' = IF polls < MaxPolls THEN polls + 1 ELSE polls
    /\ openSeen' = StreamBlocked(inputs, streamOpen)
    /\ startStopped' = PrerequisitesStopped
    /\ UNCHANGED <<killer, launcher, logKept, startup,
                   pidWrites, storePrereqs,
                   config, store, storePid, lastCheckedDict, exitCode,
                   waitedForPrereq>>

BreakIgnoringWait ==
    /\ pc = "decide"
    /\ ~missing
    /\ pc' = "launch"
    /\ UNCHANGED <<killer, launcher, logf, seen, startup,
                   handle, pidWrites, storePrereqs, iter,
                   config, store, storePid, mem, updatedProtocols,
                   lastCheckedDict, flags, exitCode, obs, raised>>

\* lines 217-218: leave the loop
Break ==
    /\ pc = "decide"
    /\ ~missing /\ ~wait
    /\ pc' = "launch"
    /\ UNCHANGED <<killer, launcher, logf, seen, startup,
                   handle, pidWrites, storePrereqs, iter,
                   config, store, storePid, mem, updatedProtocols,
                   lastCheckedDict, flags, exitCode, obs, raised>>

\* lines 220-224: commit what the refreshes stored in the project, close
StillNotReady ==
    /\ pc = "decide"
    /\ ~(~missing /\ ~wait)
    /\ projStatus' = [j \in Jobs |->
                        IF j \in Range(updatedProtocols) THEN mem[j]
                        ELSE projStatus[j]]
    /\ waitedForPrereq' = (waitedForPrereq \/ wait)
    /\ committed' = TRUE
    /\ handleOpen' = FALSE
    /\ logLines' = AddLines(logLines, 1)
    /\ pc' = "sleep"
    /\ UNCHANGED <<killer, launcher, logKept, seen, startup,
                   pidWrites, storePrereqs, iter,
                   config, runStatus, streamOpen, mtime, storePid, mem,
                   updatedProtocols, lastCheckedDict, flags, exitCode,
                   polls, validation, openSeen, startStopped, raised>>

\* line 225: time.sleep(sleepTime) returns
Sleep ==
    /\ pc = "sleep"
    /\ pc' = "poll"
    /\ UNCHANGED <<killer, launcher, logf, seen, startup,
                   handle, pidWrites, storePrereqs, iter,
                   config, store, storePid, mem, updatedProtocols,
                   lastCheckedDict, flags, exitCode, obs, raised>>

\* lines 227-229: project.launchProtocol(protocol, scheduled=True, force=True)
Launch ==
    /\ pc = "launch"
    /\ logLines' = AddLines(logLines, 1)
    /\ \E ok \in BOOLEAN :
          IF ok
          THEN pc' = "launched" /\ UNCHANGED raised
          ELSE pc' = "except" /\ raised' = TRUE
    /\ UNCHANGED <<killer, launcher, logKept, seen, startup,
                   handle, pidWrites, storePrereqs, iter,
                   config, store, storePid, mem, updatedProtocols,
                   lastCheckedDict, flags, exitCode, obs>>

\* lines 233-235: main returned, the script ends
Finish ==
    /\ pc = "launched"
    /\ pc' = "exited"
    /\ exitCode' = 0
    /\ UNCHANGED <<killer, launcher, logf, seen, startup,
                   handle, pidWrites, storePrereqs, iter,
                   config, store, storePid, mem, updatedProtocols,
                   lastCheckedDict, flags, obs, raised>>

\* lines 236-238: the exception is printed with sys.argv, then the script ends
ExceptHandler ==
    /\ pc = "except"
    /\ pc' = "exited"
    /\ exitCode' = 0
    /\ UNCHANGED <<killer, launcher, logf, seen, startup,
                   handle, pidWrites, storePrereqs, iter,
                   config, store, storePid, mem, updatedProtocols,
                   lastCheckedDict, flags, obs, raised>>

\* ------------------------------------------------- the other processes
\* the process that runs protocol j commits a terminal status
StatusChange(j, s) ==
    /\ pc # "exited"
    /\ j \in Referenced
    /\ Auth(j) = STATUS_RUNNING
    /\ IF dbExists[j]
       THEN /\ runStatus' = [runStatus EXCEPT ![j] = s]
            /\ mtime' = [mtime EXCEPT ![j] = @ + 1]
            /\ UNCHANGED projStatus
       ELSE /\ projStatus' = [projStatus EXCEPT ![j] = s]
            /\ UNCHANGED <<runStatus, mtime>>
    /\ UNCHANGED <<killer, launcher, logf, seen, startup,
                   handle, pidWrites, storePrereqs, iter,
                   config, streamOpen, storePid, pc, mem, updatedProtocols,
                   lastCheckedDict, flags, exitCode, obs, raised>>

\* the output Set of protocol j is closed
CloseStream(j) ==
    /\ pc # "exited"
    /\ j \in InputSetOwners
    /\ streamOpen[j]
    /\ streamOpen' = [streamOpen EXCEPT ![j] = FALSE]
    /\ mtime' = [mtime EXCEPT ![j] = IF dbExists[j] THEN @ + 1 ELSE @]
    /\ UNCHANGED <<killer, launcher, logf, seen, startup,
                   handle, pidWrites, storePrereqs, iter,
                   config, runStatus, projStatus, storePid, pc, mem,
                   updatedProtocols, lastCheckedDict, flags, exitCode, obs,
                   raised>>

\* ------------------------------------------------------- launcher actions
\* a call of runJob with its arguments and environment
InitLauncher ==
    /\ SchedulerIdle
    /\ KillerIdle
    /\ lpc = "start"
    /\ programname \in Programs
    /\ params \in Params
    /\ numberOfMpi \in MpiCounts
    /\ runInBackground \in BOOLEAN
    /\ hostConfig \in HostConfigs
    /\ debug \in DebugValues
    /\ command = <<>>
    /\ callOutcome = NoOutcome
    /\ result = NoResult
    /\ spawned = 0
    /\ coreUnlimited = FALSE

\* runJob, lines 42-51: build the command and show it
BuildCommand ==
    /\ lpc = "start"
    /\ LET built == buildRunCommand(programname, params, numberOfMpi,
                                    runInBackground, hostConfig)
       IN  IF built.exc
           THEN /\ lpc' = "done"
                /\ result' = [kind |-> "raise", value |-> InitialRetcode,
                              message |-> "buildRunCommand: hostConfig is needed to launch MPI processes.",
                              args |-> <<>>]
                /\ UNCHANGED command
           ELSE /\ lpc' = "built"
                /\ command' = built.command
                /\ UNCHANGED result
    /\ UNCHANGED <<killer, scheduler, programname, params, numberOfMpi,
                   runInBackground, hostConfig, debug, callOutcome, spawned,
                   coreUnlimited>>

\* runJob, line 53, and runCommand, lines 56-71; outcome is what
\* subprocess.call does with the command
RunCommand(outcome) ==
    /\ lpc = "built"
    /\ coreUnlimited' = DebugOn(debug)
    /\ callOutcome' = outcome
    /\ spawned' = spawned + 1
    /\ result' = runCommand(command, outcome)
    /\ lpc' = "done"
    /\ UNCHANGED <<killer, scheduler, programname, params, numberOfMpi,
                   runInBackground, hostConfig, debug, command>>

NextLauncher ==
    \/ BuildCommand
    \/ \E outcome \in CallOutcomes : RunCommand(outcome)

SpecLauncher == InitLauncher /\ [][NextLauncher]_vars

\* ---------------------------------------------------------- killWithChilds
\* the process killWithChilds is called for, and the processes of the machine
rootPid == 1
Pids == 1..MaxProcs

\* p is the process named by pid or one of its descendants, by the forks that
\* made it
RECURSIVE InTree(_, _, _)
InTree(p, pid, par) ==
    IF p = pid THEN TRUE
    ELSE IF p \notin DOMAIN par \/ par[p] = 0 THEN FALSE
    ELSE InTree(par[p], pid, par)

Descendants(pid, par, procs) ==
    {p \in procs : p # pid /\ InTree(p, pid, par)}

\* a finite set of process ids as a sequence, smallest first
RECURSIVE SetToSeq(_)
SetToSeq(S) ==
    IF S = {} THEN <<>>
    ELSE LET m == CHOOSE x \in S : \A y \in S : x <= y
         IN  <<m>> \o SetToSeq(S \ {m})

\* a process tree: every process but the root is forked by a process with a
\* smaller id, and the processes that run have their parent running
InitKiller ==
    /\ SchedulerIdle
    /\ LauncherIdle
    /\ kpc = "start"
    /\ parent \in {f \in [Pids -> 0..MaxProcs] :
                      /\ f[rootPid] = 0
                      /\ \A p \in Pids \ {rootPid} : f[p] >= 1 /\ f[p] < p}
    /\ alive \in {S \in SUBSET Pids :
                      /\ rootPid \in S
                      /\ \A p \in S \ {rootPid} : parent[p] \in S}
    /\ started = alive
    /\ children = <<>>
    /\ killed = <<>>

\* lines 113-115: the process and the list of its descendants
KillEnumerate ==
    /\ kpc = "start"
    /\ children' = SetToSeq(Descendants(rootPid, parent, alive))
    /\ kpc' = "children"
    /\ UNCHANGED <<scheduler, launcher, alive, started, parent, killed>>

\* lines 115-117: the next descendant of the list is killed
KillChild ==
    /\ kpc = "children"
    /\ children # <<>>
    /\ alive' = alive \ {Head(children)}
    /\ killed' = Append(killed, Head(children))
    /\ children' = Tail(children)
    /\ UNCHANGED <<scheduler, launcher, kpc, started, parent>>

\* lines 118-119: the process itself is killed
KillRoot ==
    /\ kpc = "children"
    /\ children = <<>>
    /\ alive' = alive \ {rootPid}
    /\ killed' = Append(killed, rootPid)
    /\ kpc' = "done"
    /\ UNCHANGED <<scheduler, launcher, started, parent, children>>

\* a running process of the tree forks the child c
Fork(c) ==
    /\ kpc \in {"start", "children"}
    /\ c \in Pids \ started
    /\ parent[c] \in alive
    /\ alive' = alive \cup {c}
    /\ started' = started \cup {c}
    /\ UNCHANGED <<scheduler, launcher, kpc, parent, children, killed>>

NextKiller ==
    \/ KillEnumerate
    \/ KillChild
    \/ KillRoot
    \/ \E c \in Pids : Fork(c)

SpecKiller == InitKiller /\ [][NextKiller]_vars

Next ==
    \/ StartLoad
    \/ StartStore
    \/ \E valid \in BOOLEAN : Poll(valid)
    \/ Break
    \/ StillNotReady
    \/ Sleep
    \/ Launch
    \/ Finish
    \/ ExceptHandler
    \/ \E j \in Others, s \in stopStatuses : StatusChange(j, s)
    \/ \E j \in Others : CloseStream(j)

Spec == Init /\ [][Next]_vars

SpecWaitFor == InitWaitFor /\ [][Next]_vars

\* another process edits the scheduled protocol while the scheduler is in its
\* loop: it commits the list ps as the prerequisites of the protocol
PrerequisitesEdited(ps) ==
    /\ pc \in {"poll", "decide", "sleep"}
    /\ ps # storePrereqs
    /\ storePrereqs' = ps
    /\ UNCHANGED <<killer, launcher, logf, seen, startup,
                   handle, pidWrites, iter, config, store,
                   storePid, pc, mem, updatedProtocols, lastCheckedDict,
                   flags, exitCode, obs, raised>>

\* a run with at most one prerequisite, whose prerequisites are edited by
\* another process
InitReload ==
    /\ prerequisites \in DistinctSeqsUpTo(AllIds \ {protId}, 1)
    /\ waitProtIds = <<>>
    /\ oldLog = 0
    /\ InitRun

NextReload ==
    \/ StartLoad
    \/ StartStore
    \/ \E valid \in BOOLEAN : Poll(valid)
    \/ Break
    \/ StillNotReady
    \/ Sleep
    \/ Launch
    \/ Finish
    \/ ExceptHandler
    \/ \E j \in Others, s \in stopStatuses : StatusChange(j, s)
    \/ \E j \in Others : CloseStream(j)
    \/ \E ps \in DistinctSeqsUpTo(AllIds \ {protId}, 1) : PrerequisitesEdited(ps)

SpecReload == InitReload /\ [][NextReload]_vars

\* a run with at most one prerequisite, of a protocol that may have a
\* schedule log already
InitLog ==
    /\ prerequisites \in DistinctSeqsUpTo(AllIds \ {protId}, 1)
    /\ waitProtIds = <<>>
    /\ oldLog \in 0..MaxOldLines
    /\ InitRun

SpecLog == InitLog /\ [][Next]_vars

\* the owning project commits the status s for the scheduled protocol while
\* the scheduler starts; one such commit is considered
ContainerCommit(s) ==
    /\ pc \in {"init", "loaded"}
    /\ containerStatus = "none"
    /\ s # Auth(protId)
    /\ runStatus' = [runStatus EXCEPT ![protId] = s]
    /\ mtime' = [mtime EXCEPT ![protId] = @ + 1]
    /\ containerStatus' = s
    /\ UNCHANGED <<killer, launcher, logf, seen, loadedStatus, handle,
                   pidWrites, storePrereqs, iter, config, projStatus,
                   streamOpen, storePid, pc, mem, updatedProtocols,
                   lastCheckedDict, flags, exitCode, obs, raised>>

\* a run with at most one prerequisite, of a protocol the owning project
\* writes to while the scheduler starts
InitStartup ==
    /\ prerequisites \in DistinctSeqsUpTo(AllIds \ {protId}, 1)
    /\ waitProtIds = <<>>
    /\ oldLog = 0
    /\ InitRun

NextStartup ==
    \/ StartLoad
    \/ StartStore
    \/ \E valid \in BOOLEAN : Poll(valid)
    \/ Break
    \/ StillNotReady
    \/ Sleep
    \/ Launch
    \/ Finish
    \/ ExceptHandler
    \/ \E j \in Others, s \in stopStatuses : StatusChange(j, s)
    \/ \E j \in Others : CloseStream(j)
    \/ \E s \in Status : ContainerCommit(s)

SpecStartup == InitStartup /\ [][NextStartup]_vars

TypeOK ==
    /\ pc \in {"init", "loaded", "poll", "decide",
               "sleep", "launch", "launched", "except", "exited"}
    /\ mem \in [Jobs -> Status \cup {"unloaded"}]
    /\ runStatus \in [Jobs -> Status]
    /\ projStatus \in [Jobs -> Status]
    /\ polls \in 0..MaxPolls
    /\ handleOpen \in BOOLEAN
    /\ committed \in BOOLEAN
    /\ pidWrites \in 0..1
    /\ refreshCount \in [Jobs -> 0..1]
    /\ oldLog \in 0..MaxOldLines
    /\ logKept \in {0, oldLog}
    /\ logLines \in 0..MaxLogLines
    /\ refreshedAt \in [Jobs -> {None} \cup Nat]
    /\ unmodifiedRefresh \in BOOLEAN
    /\ resolveError \in BOOLEAN
    /\ loadedStatus \in Status \cup {"unloaded"}
    /\ containerStatus \in Status \cup {"none"}

\* ------------------------------------------------------------- properties
\* the states of a poll iteration after its checks, and of the launch
Decided == pc \in {"decide", "sleep", "launch", "launched"}

Launching == pc \in {"launch", "launched"}

\* an input attribute resolved to a protocol seen ABORTED or FAILED
FailedAncestorSeen ==
    \E i \in 1..Len(inputs) : IsFailedStatus(mem[inputs[i].prot])

\* a prerequisite resolved to a protocol seen with a status out of stopStatuses
RunningPrereqSeen ==
    \E i \in 1..Len(prerequisites) :
        /\ prerequisites[i] \in Jobs
        /\ mem[prerequisites[i]] \notin stopStatuses

UnknownPrereq == \E i \in 1..Len(prerequisites) : prerequisites[i] \notin Jobs

\* C1: an iteration that saw an ABORTED or FAILED input ancestor never leaves
\* the loop through the ready exit and the run is never launched.
C1_BlockedOnFailedInput == Launching => ~FailedAncestorSeen

\* C2: an iteration that saw a prerequisite out of {FINISHED, ABORTED, FAILED}
\* ends waiting: wait is set, the loop is not left to launch, and the only
\* continuation is to sleep and poll again, whatever the inputs, validate()
\* and the streaming flags are.
C2_WaitingOnPrerequisite ==
    (Decided /\ RunningPrereqSeen) => (wait /\ pc \in {"decide", "sleep"})

C2_Witness ==
    /\ pc = "sleep"
    /\ RunningPrereqSeen
    /\ ~missing
    /\ Len(prerequisites) = 2

C4_NoRetryAfterFailedInput == pc = "sleep" => ~FailedAncestorSeen

\* C5: while a prerequisite is committed with a status out of stopStatuses the
\* iteration waits, and an iteration that starts when every prerequisite is
\* committed as stopped, with nothing else missing, is ready and is not
\* followed by a sleep.
C5_PrerequisiteSeenWithinOnePoll ==
    Decided =>
        /\ (\E i \in 1..Len(prerequisites) :
                /\ prerequisites[i] \in Jobs
                /\ Auth(prerequisites[i]) \notin stopStatuses)
              => (wait /\ pc \in {"decide", "sleep"})
        /\ (startStopped /\ ~missing)
              => (~wait /\ pc # "sleep")

C5_Witness ==
    /\ pc = "launch"
    /\ waitedForPrereq
    /\ Len(prerequisites) = 1
    /\ prerequisites[1] \in Jobs
    /\ dbExists[prerequisites[1]]
    /\ Auth(prerequisites[1]) = STATUS_FINISHED
    /\ inputs = <<>>

\* C6: an iteration of a run that does not work in streaming and that has an
\* input Set with its stream open waits; with no open stream, a valid run and
\* every prerequisite stopped, the iteration is ready.
C6_OpenStreamWaits ==
    (Decided /\ ~worksInStreaming) =>
        /\ openSeen => ((missing \/ wait) /\ pc \in {"decide", "sleep"})
        /\ (~openSeen /\ validation = "ok" /\ startStopped)
              => (~missing /\ ~wait /\ pc # "sleep")

\* C7 (as stated): a run without prerequisites and without input attributes
\* is ready in its first poll iteration.
C7_ImmediateReadiness ==
    (Decided /\ polls = 1 /\ prerequisites = <<>> /\ inputs = <<>>)
        => (~missing /\ ~wait /\ pc # "sleep")

\* C7 (amended): a run without prerequisites and without input attributes
\* whose validate() finds no problem is ready in its first poll iteration and
\* is launched without a sleep.
C7_ImmediateReadinessWhenValid ==
    (Decided /\ polls = 1 /\ prerequisites = <<>> /\ inputs = <<>>
        /\ validation = "ok")
        => (~missing /\ ~wait /\ pc # "sleep")

C7_Witness ==
    /\ pc = "launch"
    /\ polls = 1
    /\ prerequisites = <<>>
    /\ inputs = <<>>
    /\ validation = "ok"

\* C8: once a poll iteration has met a prerequisite identifier that is no
\* protocol of the project, the scheduler has failed: it neither waits nor
\* launches.
C8_UnknownPrerequisiteIsFatal ==
    (UnknownPrereq /\ polls >= 1) => (raised /\ pc \in {"except", "exited"})

\* C9: the run is not launched before every protocol of --wait_for is
\* FINISHED, ABORTED or FAILED.
C9_WaitForIsWaitedFor ==
    Launching =>
        \A i \in 1..Len(waitProtIds) : Auth(waitProtIds[i]) \in stopStatuses

\* C10: a scheduler that ended with an exception raised in main exits with a
\* status other than zero.
C10_NonZeroExitOnException == (pc = "exited" /\ raised) => exitCode # 0

\* ------------------------------------------------ properties of the launcher
Built == lpc = "built" \/ (lpc = "done" /\ callOutcome.kind # "none")

\* the inner command of an MPI run
Inner == InnerCommand(RewriteProgram(programname), params)

\* C11: runCommand returns 0 for the exit code 0, raises a failure with the
\* exit code and the command for every other exit code, raises a different
\* failure with the OS error and the command when the launch itself fails,
\* and never returns anything but 0.
C11_RunCommandClassifies ==
    (lpc = "done" /\ callOutcome.kind # "none") =>
        /\ (callOutcome.kind = "exit" /\ callOutcome.value = 0)
              => (result.kind = "return" /\ result.value = 0)
        /\ (callOutcome.kind = "exit" /\ callOutcome.value # 0)
              => /\ result.kind = "raise"
                 /\ result.message = "Process returned with code %d, command: %s"
                 /\ result.args = <<callOutcome.value, command>>
        /\ callOutcome.kind = "OSError"
              => /\ result.kind = "raise"
                 /\ result.message = "Execution failed %s, command: %s"
                 /\ result.args = <<callOutcome.value, command>>
        /\ result.kind = "return" => result.value = 0

C11_Witness ==
    /\ lpc = "done"
    /\ callOutcome = [kind |-> "exit", value |-> 1]
    /\ result.kind = "raise"
    /\ result.args = <<1, command>>
    /\ command = <<"a", "l", "i", "g", "n", " ", "-", "-", "i", "n", " ", "a", ".", "d", "a", "t">>

\* C12: with numberOfMpi > 1 and no host configuration runJob ends with the
\* exception of buildRunCommand and subprocess.call is never reached.
C12_NoHostConfigIsFatal ==
    (numberOfMpi > 1 /\ ~hostConfig.present /\ lpc \notin {"idle", "start"}) =>
        /\ lpc = "done"
        /\ result.kind = "raise"
        /\ result.message = "buildRunCommand: hostConfig is needed to launch MPI processes."
        /\ spawned = 0
        /\ callOutcome = NoOutcome

C12_Witness ==
    /\ lpc = "done"
    /\ numberOfMpi = 4
    /\ ~hostConfig.present
    /\ result.kind = "raise"
    /\ spawned = 0

\* C13: with numberOfMpi <= 1 the command is the program name, one space and
\* the parameters, followed by " &" only for a background run, whatever the
\* host configuration is; "align" with "--in a.dat" gives "align --in a.dat".
C13_SingleProcessCommand ==
    (numberOfMpi <= 1 /\ lpc \notin {"idle", "start"}) =>
        /\ Built
        /\ command = programname \o <<" ">> \o params
                        \o (IF runInBackground THEN <<" ", "&">> ELSE <<>>)
        /\ (programname = <<"a", "l", "i", "g", "n">> /\ params = <<"-", "-", "i", "n", " ", "a", ".", "d", "a", "t">> /\ ~runInBackground)
              => command = <<"a", "l", "i", "g", "n", " ", "-", "-", "i", "n", " ", "a", ".", "d", "a", "t">>

C13_Witness ==
    /\ lpc = "done"
    /\ numberOfMpi = 1
    /\ hostConfig.present
    /\ programname = <<"x", "m", "i", "p", "p", "_", "r", "e", "c", "o", "n", "s", "t", "r", "u", "c", "t">>
    /\ command = <<"x", "m", "i", "p", "p", "_", "r", "e", "c", "o", "n", "s", "t", "r", "u", "c", "t", " ", "-", "i", " ", "x">>
    /\ result.kind = "return"

\* C14: with numberOfMpi = N > 1 and a host configuration the command is the
\* template with JOB_NODES = N and COMMAND = the rewritten program between
\* grave accents after "which", a space and the parameters; scenario B gives
\* "mpirun -np 4 (grave)which xmipp_mpi_reconstruct(grave) -i x".
C14_MpiCommand ==
    (numberOfMpi > 1 /\ hostConfig.present /\ lpc \notin {"idle", "start"}) =>
        /\ Built
        /\ hostConfig.mpiCommand = <<"m", "p", "i", "r", "u", "n", " ", "-", "n", "p", " ", JOB_NODES, " ", COMMAND>>
              => command = <<"m", "p", "i", "r", "u", "n", " ", "-", "n", "p", " ">> \o DecimalString(numberOfMpi) \o <<" ">>
                              \o Inner
                              \o (IF runInBackground THEN <<" ", "&">> ELSE <<>>)
        /\ (/\ programname = <<"x", "m", "i", "p", "p", "_", "r", "e", "c", "o", "n", "s", "t", "r", "u", "c", "t">>
            /\ params = <<"-", "i", " ", "x">>
            /\ numberOfMpi = 4
            /\ hostConfig.mpiCommand = <<"m", "p", "i", "r", "u", "n", " ", "-", "n", "p", " ", JOB_NODES, " ", COMMAND>>
            /\ ~runInBackground)
              => command = <<"m", "p", "i", "r", "u", "n", " ", "-", "n", "p", " ", "4", " ", BACKTICK, "w", "h", "i", "c", "h", " ", "x", "m", "i", "p", "p", "_", "m", "p", "i", "_", "r", "e", "c", "o", "n", "s", "t", "r", "u", "c", "t", BACKTICK, " ", "-", "i", " ", "x">>

C14_Witness ==
    /\ lpc = "built"
    /\ numberOfMpi = 4
    /\ programname = <<"x", "m", "i", "p", "p", "_", "r", "e", "c", "o", "n", "s", "t", "r", "u", "c", "t">>
    /\ command = <<"m", "p", "i", "r", "u", "n", " ", "-", "n", "p", " ", "4", " ", BACKTICK, "w", "h", "i", "c", "h", " ", "x", "m", "i", "p", "p", "_", "m", "p", "i", "_", "r", "e", "c", "o", "n", "s", "t", "r", "u", "c", "t", BACKTICK, " ", "-", "i", " ", "x">>

\* C15 (as stated): the command of an MPI run contains the inner command
\* exactly once and the decimal representation of N exactly once.
C15_ExactlyOnce ==
    (numberOfMpi > 1 /\ hostConfig.present /\ Built) =>
        /\ Occurrences(command, Inner) = 1
        /\ Occurrences(command, DecimalString(numberOfMpi)) = 1

\* C15 (amended): the command of an MPI run contains the inner command and
\* the decimal representation of N at least once each.
C15_AtLeastOnce ==
    (numberOfMpi > 1 /\ hostConfig.present /\ lpc \notin {"idle", "start"}) =>
        /\ Built
        /\ Occurrences(command, Inner) >= 1
        /\ Occurrences(command, DecimalString(numberOfMpi)) >= 1

C15_Witness ==
    /\ lpc = "built"
    /\ numberOfMpi = 4
    /\ params = <<"-", "n", " ", "4">>
    /\ Occurrences(command, Inner) = 1
    /\ Occurrences(command, DecimalString(numberOfMpi)) = 2

\* ------------------------------------------------ properties of killWithChilds
\* C16: when killWithChilds has ended, the root was killed after every
\* descendant of the list, and no descendant of the root is running.
C16_NoDescendantSurvives ==
    kpc = "done" =>
        /\ killed # <<>>
        /\ killed[Len(killed)] = rootPid
        /\ \A i \in 1..(Len(killed) - 1) : killed[i] # rootPid
        /\ Descendants(rootPid, parent, alive) = {}

\* ------------------------------------------- properties of the store handle
\* C17: when the loop is left and project.launchProtocol is about to be
\* called, the handle of the store opened by this iteration has been committed
\* and closed.
C17_CommitCloseBeforeLaunch ==
    pc = "launch" => committed /\ ~handleOpen

\* C18: the pid of the scheduler is committed into the store exactly once, by
\* the start-up code before the first poll iteration: never before the
\* protocol is loaded, never more than once, and from the first iteration on
\* it has been committed once and the handle used for it was closed.
C18_PidStoredOnceAtStartup ==
    /\ pidWrites \in {0, 1}
    /\ (pidWrites = 1) = storePid
    /\ pc \in {"init", "loaded"} => pidWrites = 0
    /\ (pc \in {"poll", "decide", "sleep", "launch", "launched"} \/ polls >= 1)
          => pidWrites = 1

C18_Witness ==
    pc = "decide" /\ polls = MaxPolls /\ waitedForPrereq /\ pidWrites = 1

\* C20: when an iteration has taken its decision, every protocol was refreshed
\* through project._updateProtocol at most once in it, and the memo list
\* holds exactly the protocols refreshed in this iteration, each of them once.
C20_RefreshedAtMostOnce ==
    Decided =>
        /\ \A j \in Jobs : refreshCount[j] <= 1
        /\ \A j \in Jobs : (refreshCount[j] = 1) = (j \in Range(updatedProtocols))
        /\ Len(updatedProtocols) = Cardinality(Range(updatedProtocols))

C20_Witness ==
    /\ Decided
    /\ polls = MaxPolls
    /\ \E i \in 1..Len(inputs) : inputs[i].prot = 2
    /\ 2 \in Range(prerequisites)
    /\ ~missing
    /\ refreshCount[2] = 1

\* C19: the prerequisites checked by an iteration are those of the protocol
\* as this iteration loaded it from the store.
C19_PrerequisitesOfThisIteration ==
    Decided => prerequisites = loadedPrereqs

\* ------------------------------------------- properties of the program rewrite
\* the name with its leading "xmipp" replaced by "xmipp_mpi" and the rest of
\* its characters kept
PrefixRewrite(name) ==
    IF StartsWith(name, XMIPP)
    THEN XMIPP_MPI \o SubSeq(name, Len(XMIPP) + 1, Len(name))
    ELSE name

\* C24: the command built for numberOfMpi > 1 holds the program name with only
\* its leading "xmipp" replaced by "xmipp_mpi"; a name that does not start
\* with "xmipp" is kept as it is.
C24_PrefixSubstitution ==
    (numberOfMpi > 1 /\ hostConfig.present /\ lpc = "built") =>
        command = WithBackground(
                      FormatTemplate(hostConfig.mpiCommand,
                          [JOB_NODES |-> DecimalString(numberOfMpi),
                           COMMAND |-> InnerCommand(PrefixRewrite(programname),
                                                    params)]),
                      runInBackground)

\* ------------------------------------------------ properties of the refreshes
\* C21: no iteration refreshes a protocol that was refreshed before and whose
\* run.db has not been modified since.
C21_NoRefreshWithoutModification == ~unmodifiedRefresh

\* C23: _getProtocolFromPointer resolves every input pointer of an iteration
\* to a protocol, in each of its three cases, without raising.
C23_EveryPointerResolves ==
    /\ ~resolveError
    /\ (Decided \/ (pc = "except" /\ handleOpen)) =>
          \A i \in 1..Len(inputs) :
             LET res == getProtocolFromPointer(inputs[i])
             IN  res.ok /\ res.prot = inputs[i].prot

\* -------------------------------------------- properties of the schedule log
\* C22: the lines the schedule log had when the scheduler started are still
\* in it, whatever the scheduler did since.
C22_AppendOnly == logKept = oldLog

\* ------------------------------------------ properties of the start-up write
\* C25: once the scheduler has committed its pid, a status the owning project
\* committed for the protocol while the scheduler started is still the
\* committed status, together with the pid.
C25_NoLostUpdate ==
    (pidWrites = 1 /\ containerStatus # "none") =>
        (Auth(protId) = containerStatus /\ storePid)

====
